---- MODULE Spec2Model ----
(***************************************************************************)
(* SnackGPT (src/app.py): a Streamlit script that sends three prompts to a *)
(* text-generation endpoint (normalize, suggest, generate), parses the     *)
(* JSON replies, keeps the results in st.session_state across reruns and   *)
(* appends recipes to a JSON-array file.                                   *)
(*                                                                         *)
(* Python values are tagged records with one fixed set of fields, texts    *)
(* are sequences of tokens, json.loads is a recursive-descent parser over  *)
(* tokens and json.dump a printer, so that parsing and the save/reload     *)
(* round trip are computed and not assumed.                                *)
(***************************************************************************)
EXTENDS Integers, Sequences, FiniteSets, TLC

(***************************************************************************)
(* Python values as produced by json.loads                                 *)
(***************************************************************************)
JNull == [k |-> "null", n |-> 0, s |-> "", items |-> <<>>, keys |-> <<>>, vals |-> <<>>]

JNum(x) == [k |-> "num", n |-> x, s |-> "", items |-> <<>>, keys |-> <<>>, vals |-> <<>>]

JStr(x) == [k |-> "str", n |-> 0, s |-> x, items |-> <<>>, keys |-> <<>>, vals |-> <<>>]

JArr(xs) == [k |-> "arr", n |-> 0, s |-> "", items |-> xs, keys |-> <<>>, vals |-> <<>>]

\* a dict: keys in insertion order, vals[i] the value of keys[i]
JObj(ks, vs) == [k |-> "obj", n |-> 0, s |-> "", items |-> <<>>, keys |-> ks, vals |-> vs]

EmptyList == JArr(<<>>)

EmptyDict == JObj(<<>>, <<>>)

\* bool(v) as `if v:` evaluates it
Truthy(v) ==
    CASE v.k = "null" -> FALSE
      [] v.k = "num" -> v.n # 0
      [] v.k = "str" -> v.s # ""
      [] v.k = "arr" -> Len(v.items) > 0
      [] OTHER -> Len(v.keys) > 0

HasKey(d, key) == \E i \in 1..Len(d.keys) : d.keys[i] = key

KeyIndex(d, key) == CHOOSE i \in 1..Len(d.keys) : d.keys[i] = key

\* d[key] of a dict that has the key
DictItem(d, key) == d.vals[KeyIndex(d, key)]

\* d.get(key, default) of a dict
DictGet(d, key, default) == IF HasKey(d, key) THEN DictItem(d, key) ELSE default

\* d[key] = v : a present key keeps its place, a new key goes last
DictSet(d, key, v) ==
    IF HasKey(d, key)
    THEN JObj(d.keys, [d.vals EXCEPT ![KeyIndex(d, key)] = v])
    ELSE JObj(Append(d.keys, key), Append(d.vals, v))

(***************************************************************************)
(* Texts: sequences of tokens                                              *)
(***************************************************************************)
Tok(t) == [t |-> t, s |-> "", n |-> 0]

TStr(x) == [t |-> "str", s |-> x, n |-> 0]

TNum(x) == [t |-> "num", s |-> "", n |-> x]

\* whitespace between tokens
WS == Tok("ws")

\* text that is no JSON token (prose, a markdown fence)
Junk == Tok("junk")

IsWS(tok) == tok.t = "ws"

RECURSIVE LStrip(_)
LStrip(text) ==
    IF Len(text) > 0 /\ IsWS(Head(text)) THEN LStrip(Tail(text)) ELSE text

RECURSIVE RStrip(_)
RStrip(text) ==
    IF Len(text) > 0 /\ IsWS(text[Len(text)])
    THEN RStrip(SubSeq(text, 1, Len(text) - 1))
    ELSE text

\* str.strip()
Strip(text) == RStrip(LStrip(text))

(***************************************************************************)
(* json.loads                                                              *)
(***************************************************************************)
ParseFail == [ok |-> FALSE, val |-> JNull, next |-> 0]

ParseOk(v, i) == [ok |-> TRUE, val |-> v, next |-> i]

\* the decoder skips whitespace before and after every token
RECURSIVE SkipWS(_, _)
SkipWS(ts, i) == IF i <= Len(ts) /\ IsWS(ts[i]) THEN SkipWS(ts, i + 1) ELSE i

RECURSIVE ParseValue(_, _)
RECURSIVE ParseItems(_, _, _)
RECURSIVE ParseMembers(_, _, _)

\* one JSON value starting at token i (whitespace already skipped)
ParseValue(ts, i) ==
    IF i > Len(ts) THEN ParseFail
    ELSE LET tok == ts[i] IN
         CASE tok.t = "null" -> ParseOk(JNull, i + 1)
           [] tok.t = "num" -> ParseOk(JNum(tok.n), i + 1)
           [] tok.t = "str" -> ParseOk(JStr(tok.s), i + 1)
           [] tok.t = "[" ->
                LET j == SkipWS(ts, i + 1) IN
                IF j <= Len(ts) /\ ts[j].t = "]"
                THEN ParseOk(EmptyList, j + 1)
                ELSE ParseItems(ts, j, <<>>)
           [] tok.t = "{" ->
                LET j == SkipWS(ts, i + 1) IN
                IF j <= Len(ts) /\ ts[j].t = "}"
                THEN ParseOk(EmptyDict, j + 1)
                ELSE ParseMembers(ts, j, EmptyDict)
           [] OTHER -> ParseFail

\* value ("," value)* "]"
ParseItems(ts, i, acc) ==
    LET r == ParseValue(ts, i) IN
    IF ~r.ok THEN ParseFail
    ELSE LET j == SkipWS(ts, r.next)
             got == Append(acc, r.val) IN
         IF j > Len(ts) THEN ParseFail
         ELSE IF ts[j].t = "," THEN ParseItems(ts, SkipWS(ts, j + 1), got)
         ELSE IF ts[j].t = "]" THEN ParseOk(JArr(got), j + 1)
         ELSE ParseFail

\* string ":" value ("," string ":" value)* "}" ; a repeated key keeps the last value
ParseMembers(ts, i, acc) ==
    IF i > Len(ts) \/ ts[i].t # "str" THEN ParseFail
    ELSE LET c == SkipWS(ts, i + 1) IN
         IF c > Len(ts) \/ ts[c].t # ":" THEN ParseFail
         ELSE LET r == ParseValue(ts, SkipWS(ts, c + 1)) IN
              IF ~r.ok THEN ParseFail
              ELSE LET j == SkipWS(ts, r.next)
                       got == DictSet(acc, ts[i].s, r.val) IN
                   IF j > Len(ts) THEN ParseFail
                   ELSE IF ts[j].t = "," THEN ParseMembers(ts, SkipWS(ts, j + 1), got)
                   ELSE IF ts[j].t = "}" THEN ParseOk(got, j + 1)
                   ELSE ParseFail

\* json.loads(text): [ok, val]; ok is FALSE where Python raises JSONDecodeError
\* (no value, or extra data after the value)
json_loads(text) ==
    LET r == ParseValue(text, SkipWS(text, 1)) IN
    IF r.ok /\ SkipWS(text, r.next) = Len(text) + 1
    THEN [ok |-> TRUE, val |-> r.val]
    ELSE [ok |-> FALSE, val |-> JNull]

(***************************************************************************)
(* json.dump(obj, f, indent=4)                                             *)
(***************************************************************************)
RECURSIVE Concat(_)
Concat(seqs) == IF seqs = <<>> THEN <<>> ELSE Head(seqs) \o Concat(Tail(seqs))

RECURSIVE json_dump(_)
json_dump(v) ==
    CASE v.k = "null" -> <<Tok("null")>>
      [] v.k = "num" -> <<TNum(v.n)>>
      [] v.k = "str" -> <<TStr(v.s)>>
      [] v.k = "arr" ->
           IF Len(v.items) = 0 THEN <<Tok("["), Tok("]")>>
           ELSE <<Tok("["), WS>>
                \o Concat([i \in 1..Len(v.items) |->
                       (IF i > 1 THEN <<Tok(","), WS>> ELSE <<>>) \o json_dump(v.items[i])])
                \o <<WS, Tok("]")>>
      [] OTHER ->
           IF Len(v.keys) = 0 THEN <<Tok("{"), Tok("}")>>
           ELSE <<Tok("{"), WS>>
                \o Concat([i \in 1..Len(v.keys) |->
                       (IF i > 1 THEN <<Tok(","), WS>> ELSE <<>>)
                       \o <<TStr(v.keys[i]), Tok(":"), WS>> \o json_dump(v.vals[i])])
                \o <<WS, Tok("}")>>

(***************************************************************************)
(* The generation endpoint: what model.generate_content can do             *)
(***************************************************************************)
RECURSIVE ReplyText(_)
\* a JSON value as the endpoint writes it: on one line, a blank after "," and ":"
ReplyText(v) ==
    CASE v.k = "null" -> <<Tok("null")>>
      [] v.k = "num" -> <<TNum(v.n)>>
      [] v.k = "str" -> <<TStr(v.s)>>
      [] v.k = "arr" ->
           <<Tok("[")>>
           \o Concat([i \in 1..Len(v.items) |->
                  (IF i > 1 THEN <<Tok(","), WS>> ELSE <<>>) \o ReplyText(v.items[i])])
           \o <<Tok("]")>>
      [] OTHER ->
           <<Tok("{")>>
           \o Concat([i \in 1..Len(v.keys) |->
                  (IF i > 1 THEN <<Tok(","), WS>> ELSE <<>>)
                  \o <<TStr(v.keys[i]), Tok(":"), WS>> \o ReplyText(v.vals[i])])
           \o <<Tok("}")>>

ListA == JArr(<<JStr("2 cups flour"), JStr("3 onions")>>)

ListB == JArr(<<JStr("1 kg chicken breast")>>)

DishA == JObj(<<"name", "description">>, <<JStr("Chicken Stir Fry"), JStr("A quick stir fry.")>>)

RecipeA ==
    JObj(<<"ingredients", "steps", "prep_time", "substitutions">>,
         <<JArr(<<JStr("500g chicken")>>), JArr(<<JStr("Chop onions"), JStr("Cook chicken")>>),
           JStr("15 min"), JObj(<<"chicken">>, <<JStr("tofu for vegetarian")>>)>>)

\* a reply that is JSON: the value it denotes and its text
JsonReply(v, text) == [valid |-> TRUE, val |-> v, text |-> text]

\* a reply that is not JSON
BadReply(text) == [valid |-> FALSE, val |-> JNull, text |-> text]

\* the texts response.text can hold
Replies ==
    << JsonReply(JObj(<<"normalized_ingredients">>, <<ListA>>),
                 <<WS>> \o ReplyText(JObj(<<"normalized_ingredients">>, <<ListA>>)) \o <<WS>>),
       JsonReply(JObj(<<"normalized_ingredients">>, <<ListB>>),
                 ReplyText(JObj(<<"normalized_ingredients">>, <<ListB>>))),
       JsonReply(JObj(<<"normalized_ingredients">>, <<EmptyList>>),
                 ReplyText(JObj(<<"normalized_ingredients">>, <<EmptyList>>))),
       JsonReply(JObj(<<"normalized_ingredients">>, <<JNum(7)>>),
                 ReplyText(JObj(<<"normalized_ingredients">>, <<JNum(7)>>))),
       JsonReply(JObj(<<"dishes">>, <<JArr(<<DishA>>)>>),
                 ReplyText(JObj(<<"dishes">>, <<JArr(<<DishA>>)>>)) \o <<WS>>),
       JsonReply(JObj(<<"dishes">>, <<EmptyList>>),
                 ReplyText(JObj(<<"dishes">>, <<EmptyList>>))),
       JsonReply(EmptyDict, ReplyText(EmptyDict)),
       JsonReply(RecipeA, <<WS>> \o ReplyText(RecipeA)),
       JsonReply(ListB, ReplyText(ListB)),
       JsonReply(JNull, ReplyText(JNull)),
       JsonReply(JNum(7), ReplyText(JNum(7))),
       BadReply(<<>>),
       BadReply(<<Junk, WS, Junk>>),
       BadReply(<<Junk, WS>> \o ReplyText(RecipeA) \o <<WS, Junk>>),
       BadReply(<<Tok("{"), TStr("dishes"), Tok(":"), WS, Tok("[")>>) >>

\* what one generate_content call can do: raise (endpoint unreachable, request
\* rejected), return a response without text, or return a response with a text
Outcome(kind, reply) == [kind |-> kind, reply |-> reply]

Endpoint ==
    {Outcome("ServiceError", 0), Outcome("NoText", 0)}
    \cup {Outcome("Text", i) : i \in 1..Len(Replies)}

\* response.text of an outcome that holds one
ResponseText(ep) == Replies[ep.reply].text

(***************************************************************************)
(* The three stages                                                        *)
(***************************************************************************)
Prompt(stage, text, ingredients, dish, servings, scale_factor, units) ==
    [stage |-> stage, text |-> text, ingredients |-> ingredients, dish |-> dish,
     servings |-> servings, scale_factor |-> scale_factor, units |-> units]

\* the function raised exc after sending `sent`
Raised(exc, sent) == [raised |-> TRUE, exc |-> exc, ret |-> JNull, sent |-> sent]

\* the function returned v after sending `sent`
Returned(v, sent) == [raised |-> FALSE, exc |-> "", ret |-> v, sent |-> sent]

\* ", ".join(v) accepts an iterable of str: a list of strings, a string, a dict (its keys)
Joinable(v) ==
    \/ v.k = "arr" /\ \A i \in 1..Len(v.items) : v.items[i].k = "str"
    \/ v.k = "str"
    \/ v.k = "obj"

\* the pieces ", ".join(v) puts together (a string is kept whole)
Join(v) ==
    CASE v.k = "arr" -> [i \in 1..Len(v.items) |-> v.items[i].s]
      [] v.k = "obj" -> v.keys
      [] OTHER -> <<v.s>>

\* json.loads(response.text.strip()) inside the try: ok is FALSE where it raises
\* (response.text of a response without text, or a text that is not JSON)
Loaded(ep) ==
    IF ep.kind = "NoText" THEN [ok |-> FALSE, val |-> JNull]
    ELSE json_loads(Strip(ResponseText(ep)))

\* return result.get(field, []) inside the try, return [] in the except: .get
\* raises on every value that is no dict
GetOrEmpty(result, field) ==
    IF ~result.ok THEN EmptyList
    ELSE IF result.val.k # "obj" THEN EmptyList
    ELSE DictGet(result.val, field, EmptyList)

\* return result inside the try, return {} in the except
ResultOrEmpty(result) == IF ~result.ok THEN EmptyDict ELSE result.val

\* model.generate_content(prompt) raises: nothing catches it
GenerateContentRaises(ep) == ep.kind = "ServiceError"

\* normalize_ingredients without the try: a text that does not parse raises
normalize_ingredients_uncaught(ingredients_text, ep) ==
    IF GenerateContentRaises(ep)
    THEN Raised("ServiceError", <<Prompt("normalize", ingredients_text, <<>>, JNull, 0, 0, "")>>)
    ELSE IF ~Loaded(ep).ok
    THEN Raised("ValueError", <<Prompt("normalize", ingredients_text, <<>>, JNull, 0, 0, "")>>)
    ELSE Returned(GetOrEmpty(Loaded(ep), "normalized_ingredients"),
                  <<Prompt("normalize", ingredients_text, <<>>, JNull, 0, 0, "")>>)

normalize_ingredients(ingredients_text, ep) ==
    IF GenerateContentRaises(ep)
    THEN Raised("ServiceError", <<Prompt("normalize", ingredients_text, <<>>, JNull, 0, 0, "")>>)
    ELSE Returned(GetOrEmpty(Loaded(ep), "normalized_ingredients"),
                  <<Prompt("normalize", ingredients_text, <<>>, JNull, 0, 0, "")>>)

\* suggest_dishes asking the endpoint a second time when the first reply gave nothing
suggest_dishes_retry(normalized_ingredients, ep) ==
    IF ~Joinable(normalized_ingredients) THEN Raised("TypeError", <<>>)
    ELSE IF GenerateContentRaises(ep)
    THEN Raised("ServiceError",
                <<Prompt("suggest", "", Join(normalized_ingredients), JNull, 0, 0, "")>>)
    ELSE IF ~Truthy(GetOrEmpty(Loaded(ep), "dishes"))
    THEN Returned(GetOrEmpty(Loaded(ep), "dishes"),
                  <<Prompt("suggest", "", Join(normalized_ingredients), JNull, 0, 0, ""),
                    Prompt("suggest", "", Join(normalized_ingredients), JNull, 0, 0, "")>>)
    ELSE Returned(GetOrEmpty(Loaded(ep), "dishes"),
                  <<Prompt("suggest", "", Join(normalized_ingredients), JNull, 0, 0, "")>>)

suggest_dishes(normalized_ingredients, ep) ==
    IF ~Joinable(normalized_ingredients) THEN Raised("TypeError", <<>>)
    ELSE IF GenerateContentRaises(ep)
    THEN Raised("ServiceError",
                <<Prompt("suggest", "", Join(normalized_ingredients), JNull, 0, 0, "")>>)
    ELSE Returned(GetOrEmpty(Loaded(ep), "dishes"),
                  <<Prompt("suggest", "", Join(normalized_ingredients), JNull, 0, 0, "")>>)

generate_recipe(dish_name, normalized_ingredients, servings, scale_factor, units, ep) ==
    IF ~Joinable(normalized_ingredients) THEN Raised("TypeError", <<>>)
    ELSE IF GenerateContentRaises(ep)
    THEN Raised("ServiceError",
                <<Prompt("generate", "", Join(normalized_ingredients), dish_name,
                         servings, scale_factor, units)>>)
    ELSE Returned(ResultOrEmpty(Loaded(ep)),
                  <<Prompt("generate", "", Join(normalized_ingredients), dish_name,
                           servings, scale_factor, units)>>)

(***************************************************************************)
(* The recipe store                                                        *)
(***************************************************************************)
\* the store file: absent, or a text
File(exists, text) == [exists |-> exists, text |-> text]

NoFile == File(FALSE, <<>>)

\* json.load(f) of an existing file, [] for a missing one
LoadStore(file) ==
    IF file.exists THEN json_loads(file.text) ELSE [ok |-> TRUE, val |-> EmptyList]

\* recipes.append(recipe) and the rewrite of the file; json.load raising, or
\* .append on a value that is no list, leaves the file as it was
AppendAndDump(loaded, recipe, file) ==
    IF ~loaded.ok \/ loaded.val.k # "arr"
    THEN [raised |-> TRUE, file |-> file, recipe |-> recipe]
    ELSE [raised |-> FALSE,
          file |-> File(TRUE, json_dump(JArr(Append(loaded.val.items, recipe)))),
          recipe |-> recipe]

\* save_recipe that does not read the file: the new record replaces what was there
save_recipe_overwrite(recipe, file) ==
    [raised |-> FALSE, file |-> File(TRUE, json_dump(JArr(<<recipe>>))), recipe |-> recipe]

\* save_recipe that puts the new record first (recipes.insert(0, recipe))
save_recipe_prepend(recipe, file) ==
    IF ~LoadStore(file).ok \/ LoadStore(file).val.k # "arr"
    THEN [raised |-> TRUE, file |-> file, recipe |-> recipe]
    ELSE [raised |-> FALSE,
          file |-> File(TRUE, json_dump(JArr(<<recipe>> \o LoadStore(file).val.items))),
          recipe |-> recipe]

\* save_recipe(recipe): [raised, file, recipe], the file and the caller's recipe after
\* the call
save_recipe(recipe, file) == AppendAndDump(LoadStore(file), recipe, file)

(***************************************************************************)
(* The Streamlit script: one run per interaction                           *)
(***************************************************************************)
\* st.session_state: a mapping from the keys set so far to their values
NoSession == [key \in {} |-> JNull]

\* st.session_state.<key> = v
SessionSet(ss, key, v) == [x \in DOMAIN ss \cup {key} |-> IF x = key THEN v ELSE ss[x]]

\* "<key>" in st.session_state and st.session_state.<key>
Holds(ss, key) == key \in DOMAIN ss /\ Truthy(ss[key])

\* `for x in v` accepts a list, a string and a dict
Iterable(v) == v.k \in {"arr", "str", "obj"}

\* dish[key] works for every dish the loop `for dish in dishes` visits: the elements
\* of a list, the characters of a string, the keys of a dict
DishRowsOk(dishes, needed) ==
    CASE dishes.k = "arr" ->
           \A i \in 1..Len(dishes.items) :
              /\ dishes.items[i].k = "obj"
              /\ \A key \in needed : HasKey(dishes.items[i], key)
      [] dishes.k = "str" -> dishes.s = ""
      [] dishes.k = "obj" -> Len(dishes.keys) = 0
      [] OTHER -> FALSE

\* the display of a recipe: recipe.get, the loops over "ingredients" and "steps",
\* and subs.items()
RecipeDisplayOk(recipe) ==
    /\ recipe.k = "obj"
    /\ Iterable(DictGet(recipe, "ingredients", EmptyList))
    /\ Iterable(DictGet(recipe, "steps", EmptyList))
    /\ DictGet(recipe, "substitutions", EmptyDict).k = "obj"

\* the record of a function call: the function, its argument of interest, the
\* endpoint's outcome, and what the function did
Called(fn, arg, ep, c) ==
    [fn |-> fn, arg |-> arg, ep |-> ep, raised |-> c.raised, exc |-> c.exc,
     ret |-> c.ret, sent |-> c.sent]

NoCall == Called("", JNull, Outcome("", 0), Returned(JNull, <<>>))

TestPrompt == Prompt("test", "Test connection", <<>>, JNull, 0, 0, "")

\* what the start of the script can do: pass; stop before the test request
\* (list_models fails, the model is not listed); stop at the test request
Startups == {"ok", "init_failed", "test_failed"}

\* a run in progress: the session state, the store, the list the stored dishes were
\* suggested for, the widgets drawn so far, the stage call made, the exception that
\* ended the run, the prompts sent, and whether the run has ended
BeginRun(ss, store, src) ==
    [ss |-> ss, store |-> store, src |-> src, offered |-> {}, call |-> NoCall,
     exc |-> "", sent |-> <<>>, done |-> FALSE]

\* a stage call raised: the exception ends the run
Abort(r, call) ==
    [r EXCEPT !.call = call, !.exc = call.exc, !.sent = @ \o call.sent, !.done = TRUE]

\* an exception raised by the script's own statements ends the run
Crash(r, exc) == [r EXCEPT !.exc = exc, !.done = TRUE]

\* st.button(label): TRUE in the run its click started
Button(label, clicked) == clicked = label

\* widgets drawn by the run
Draw(r, widgets) == [r EXCEPT !.offered = @ \cup widgets]

\* a stage call returned: its record and its prompts are kept
Note(r, c) == [r EXCEPT !.call = c, !.sent = @ \o c.sent]

\* st.session_state.<key> = v during the run
Assign(r, key, v) == [r EXCEPT !.ss = SessionSet(@, key, v)]

StartupBlock(r, startup) ==
    CASE startup = "ok" -> [r EXCEPT !.sent = <<TestPrompt>>]
      [] startup = "test_failed" -> [r EXCEPT !.sent = <<TestPrompt>>, !.done = TRUE]
      [] OTHER -> [r EXCEPT !.done = TRUE]

\* lines 136-141: the call, the assignment, the loop over the result
NormalizeClicked(r, c) ==
    IF c.raised THEN Abort(r, c)
    ELSE IF ~Iterable(c.ret) THEN Crash(Assign(Note(r, c), "normalized", c.ret), "TypeError")
    ELSE Assign(Note(r, c), "normalized", c.ret)

NormalizeBlock(r, clicked, input, ep) ==
    IF r.done THEN r
    ELSE IF ~Button("Normalize Ingredients", clicked) \/ input = ""
    THEN Draw(r, {"ingredients_input", "Normalize Ingredients"})
    ELSE NormalizeClicked(Draw(r, {"ingredients_input", "Normalize Ingredients"}),
                          Called("normalize_ingredients", JStr(input), ep,
                                 normalize_ingredients(input, ep)))

\* lines 147-152: the call, the assignment, the loop over the result
SuggestClicked(r, c) ==
    IF c.raised THEN Abort(r, c)
    ELSE IF ~DishRowsOk(c.ret, {"name", "description"})
    THEN Crash([Assign(Note(r, c), "dishes", c.ret) EXCEPT !.src = c.arg], "TypeError")
    ELSE [Assign(Note(r, c), "dishes", c.ret) EXCEPT !.src = c.arg]

SuggestBlock(r, clicked, ep) ==
    IF r.done \/ ~Holds(r.ss, "normalized") THEN r
    ELSE IF ~Button("Suggest Dishes", clicked) THEN Draw(r, {"Suggest Dishes"})
    ELSE SuggestClicked(Draw(r, {"Suggest Dishes"}),
                        Called("suggest_dishes", r.ss["normalized"], ep,
                               suggest_dishes(r.ss["normalized"], ep)))

\* lines 181-183: the button inside the block of the Generate button
SaveClicked(r, recipe, w) ==
    IF w.raised THEN Crash(r, "ValueError")
    ELSE [r EXCEPT !.store = w.file,
                   !.call = Called("save_recipe", recipe, Outcome("", 0),
                                   Returned(w.recipe, <<>>))]

\* the block without `if recipe:`: whatever generate_recipe returned is kept
RecipeReturned_unchecked(r, recipe, clicked) ==
    IF ~RecipeDisplayOk(recipe) THEN Crash(Assign(r, "recipe", recipe), "AttributeError")
    ELSE IF ~Button("Save Recipe", clicked)
    THEN Draw(Assign(r, "recipe", recipe), {"Save Recipe"})
    ELSE SaveClicked(Draw(Assign(r, "recipe", recipe), {"Save Recipe"}), recipe,
                     save_recipe(recipe, r.store))

\* lines 164-185: the recipe is kept and shown if it is truthy
RecipeReturned(r, recipe, clicked) ==
    IF ~Truthy(recipe) THEN r
    ELSE IF ~RecipeDisplayOk(recipe) THEN Crash(Assign(r, "recipe", recipe), "AttributeError")
    ELSE IF ~Button("Save Recipe", clicked)
    THEN Draw(Assign(r, "recipe", recipe), {"Save Recipe"})
    ELSE SaveClicked(Draw(Assign(r, "recipe", recipe), {"Save Recipe"}), recipe,
                     save_recipe(recipe, r.store))

\* lines 163-185
GenerateClicked(r, c, clicked) ==
    IF c.raised THEN Abort(r, c) ELSE RecipeReturned(Note(r, c), c.ret, clicked)

\* dish_options[choice]: the name of the chosen dish
SelectedDish(dishes, choice) == DictItem(dishes.items[choice], "name")

GenerateBlock(r, clicked, choice, servings, scale_factor, units, ep) ==
    IF r.done \/ ~Holds(r.ss, "normalized") \/ ~Holds(r.ss, "dishes") THEN r
    ELSE IF ~DishRowsOk(r.ss["dishes"], {"name"}) THEN Crash(r, "TypeError")
    ELSE IF ~Button("Generate Recipe", clicked)
    THEN Draw(r, {"selected_dish", "servings", "scale_factor", "units", "Generate Recipe"})
    ELSE GenerateClicked(
             Draw(r, {"selected_dish", "servings", "scale_factor", "units", "Generate Recipe"}),
             Called("generate_recipe", SelectedDish(r.ss["dishes"], choice), ep,
                    generate_recipe(SelectedDish(r.ss["dishes"], choice), r.ss["normalized"],
                                    servings, scale_factor, units, ep)),
             clicked)

\* one run of the script, top to bottom
Script(ss, store, src, clicked, input, startup, choice, servings, scale_factor, units, ep) ==
    GenerateBlock(
        SuggestBlock(
            NormalizeBlock(StartupBlock(BeginRun(ss, store, src), startup), clicked, input, ep),
            clicked, ep),
        clicked, choice, servings, scale_factor, units, ep)

(***************************************************************************)
(* State                                                                   *)
(***************************************************************************)
VARIABLES
    session_state,      \* st.session_state
    ingredients_input,  \* the text area's value
    offered,            \* the widgets the last run drew
    run,                \* the last run: its trigger, its start, its stage call
    dishes_src,         \* the list st.session_state.dishes was suggested for
    store,              \* saved_recipes.json
    call,               \* the last direct call of a function of the module
    saved,              \* the recipes passed to save_recipe so far, in call order
    store0              \* the array the store held before the first save_recipe

vars == <<session_state, ingredients_input, offered, run, dishes_src, store, call,
          saved, store0>>

session_vars == <<session_state, ingredients_input, offered, run, dishes_src>>

\* the number of save_recipe calls explored
MaxSaves == 2

\* generate_recipe's defaults: servings=4, scale_factor=1.0 (in tenths)
DefaultServings == 4

DefaultScale == 10

\* st.number_input(min_value=1, value=4)
Servings == {1, DefaultServings}

\* st.slider(min_value=0.5, max_value=2.0, value=1.0), in tenths
ScaleFactors == {DefaultScale}

Units == {"metric", "imperial"}

\* what the user can type into the text area
Inputs == {"", "flour, 3 onions"}

\* argument values of direct calls
IngredientLists == {EmptyList, ListA, ListB}

DishNames == {JStr("Chicken Stir Fry"), JStr("Soup")}

\* the store before the first save: no file, or an array written earlier
InitialStores ==
    {NoFile,
     File(TRUE, ReplyText(JArr(<<JObj(<<"a">>, <<JNum(1)>>)>>)))}

\* the array a store holds (the empty array for a missing file)
StoreArray(file) == IF file.exists THEN json_loads(file.text).val ELSE EmptyList

\* the run's outcome becomes the state
Commit(r, clicked, startup) ==
    /\ session_state' = r.ss
    /\ offered' = r.offered
    /\ dishes_src' = r.src
    /\ store' = r.store
    /\ run' = [clicked |-> clicked, startup |-> startup, call |-> r.call,
               exc |-> r.exc, sent |-> r.sent]

\* the first run's outcome is the first state
FirstRun(r, startup) ==
    /\ session_state = r.ss
    /\ offered = r.offered
    /\ run = [clicked |-> "", startup |-> startup, call |-> r.call,
              exc |-> r.exc, sent |-> r.sent]

\* what no run has touched yet
Untouched ==
    /\ store \in InitialStores
    /\ store0 = StoreArray(store)
    /\ saved = <<>>
    /\ call = NoCall
    /\ ingredients_input = ""
    /\ dishes_src = JNull

\* a new session: the script has run once, nothing clicked
Init ==
    /\ Untouched
    /\ \E startup \in Startups :
          FirstRun(Script(NoSession, store, JNull, "", "", startup, 1, DefaultServings,
                          DefaultScale, "metric", Outcome("NoText", 0)), startup)

(***************************************************************************)
(* The interactive session: every interaction reruns the script            *)
(***************************************************************************)
\* one rerun of the script on the session's state
RunScript(clicked, input, startup, choice, servings, scale_factor, units, ep) ==
    Commit(Script(session_state, store, dishes_src, clicked, input, startup, choice,
                  servings, scale_factor, units, ep),
           clicked, startup)

\* a rerun that calls no stage: the widgets' values and the endpoint play no part
PlainRun(clicked, input, startup) ==
    RunScript(clicked, input, startup, 1, DefaultServings, DefaultScale, "metric",
              Outcome("NoText", 0))

\* a rerun that stops at the start of the script
StoppedRun(clicked, input) ==
    \E startup \in Startups \ {"ok"} : PlainRun(clicked, input, startup)

\* a rerun no button started (the menu's rerun, a change of a select or number widget)
Rerun ==
    /\ \E startup \in Startups : PlainRun("", ingredients_input, startup)
    /\ UNCHANGED <<ingredients_input, call, saved, store0>>

\* the user changes the text area
EditInput ==
    /\ "ingredients_input" \in offered
    /\ \E text \in Inputs \ {ingredients_input}, startup \in Startups :
          /\ ingredients_input' = text
          /\ PlainRun("", text, startup)
    /\ UNCHANGED <<call, saved, store0>>

ClickNormalize ==
    /\ "Normalize Ingredients" \in offered
    /\ \/ StoppedRun("Normalize Ingredients", ingredients_input)
       \/ \E ep \in Endpoint :
             RunScript("Normalize Ingredients", ingredients_input, "ok", 1, DefaultServings,
                       DefaultScale, "metric", ep)
    /\ UNCHANGED <<ingredients_input, call, saved, store0>>

ClickSuggest ==
    /\ "Suggest Dishes" \in offered
    /\ \/ StoppedRun("Suggest Dishes", ingredients_input)
       \/ \E ep \in Endpoint :
             RunScript("Suggest Dishes", ingredients_input, "ok", 1, DefaultServings,
                       DefaultScale, "metric", ep)
    /\ UNCHANGED <<ingredients_input, call, saved, store0>>

ClickGenerate ==
    /\ "Generate Recipe" \in offered
    /\ \/ StoppedRun("Generate Recipe", ingredients_input)
       \/ \E ep \in Endpoint, choice \in 1..Len(session_state["dishes"].items),
             servings \in Servings, scale_factor \in ScaleFactors, units \in Units :
             RunScript("Generate Recipe", ingredients_input, "ok", choice, servings,
                       scale_factor, units, ep)
    /\ UNCHANGED <<ingredients_input, call, saved, store0>>

ClickSave ==
    /\ "Save Recipe" \in offered
    /\ \E startup \in Startups : PlainRun("Save Recipe", ingredients_input, startup)
    /\ UNCHANGED <<ingredients_input, call, saved, store0>>

Next == Rerun \/ EditInput \/ ClickNormalize \/ ClickSuggest \/ ClickGenerate \/ ClickSave

Spec == Init /\ [][Next]_vars

(***************************************************************************)
(* The functions called directly, one call at a time                       *)
(***************************************************************************)
\* the module has been loaded: the script has run once and passed its start
InitCalls ==
    /\ Untouched
    /\ FirstRun(Script(NoSession, store, JNull, "", "", "ok", 1, DefaultServings,
                       DefaultScale, "metric", Outcome("NoText", 0)), "ok")

CallNormalize ==
    /\ \E text \in Inputs, ep \in Endpoint :
          call' = Called("normalize_ingredients", JStr(text), ep,
                         normalize_ingredients(text, ep))
    /\ UNCHANGED <<session_vars, store, saved, store0>>

CallSuggest ==
    /\ \E ingredients \in IngredientLists, ep \in Endpoint :
          call' = Called("suggest_dishes", ingredients, ep, suggest_dishes(ingredients, ep))
    /\ UNCHANGED <<session_vars, store, saved, store0>>

CallGenerate ==
    /\ \E dish \in DishNames, ingredients \in IngredientLists, servings \in Servings,
          scale_factor \in ScaleFactors, units \in Units, ep \in Endpoint :
          call' = Called("generate_recipe", ingredients, ep,
                         generate_recipe(dish, ingredients, servings, scale_factor, units, ep))
    /\ UNCHANGED <<session_vars, store, saved, store0>>

NextStages == CallNormalize \/ CallSuggest \/ CallGenerate

SpecStages == InitCalls /\ [][NextStages]_vars

\* generate_recipe with its default parameters, then save_recipe of what it returned
\* the store and the records after save_recipe(recipe) returned w
Saved(recipe, w, ep) ==
    /\ ~w.raised
    /\ store' = w.file
    /\ saved' = Append(saved, recipe)
    /\ call' = Called("save_recipe", recipe, ep, Returned(w.recipe, <<>>))

\* save_recipe of what generate_recipe returned
SaveReturned(c, ep) == ~c.raised /\ Saved(c.ret, save_recipe(c.ret, store), ep)

\* generate_recipe with its default parameters, then save_recipe of what it returned
SaveGenerated ==
    /\ Len(saved) < MaxSaves
    /\ \E dish \in DishNames, ingredients \in IngredientLists, ep \in Endpoint :
          SaveReturned(generate_recipe(dish, ingredients, DefaultServings, DefaultScale,
                                       "metric", ep), ep)
    /\ UNCHANGED <<session_vars, store0>>

NextStore == SaveGenerated

SpecStore == InitCalls /\ [][NextStore]_vars

(***************************************************************************)
(* Claims                                                                  *)
(***************************************************************************)
\* a == b on Python values: lists by position, dicts by key whatever the order
RECURSIVE PyEq(_, _)
PyEq(a, b) ==
    /\ a.k = b.k
    /\ CASE a.k = "null" -> TRUE
         [] a.k = "num" -> a.n = b.n
         [] a.k = "str" -> a.s = b.s
         [] a.k = "arr" ->
              /\ Len(a.items) = Len(b.items)
              /\ \A i \in 1..Len(a.items) : PyEq(a.items[i], b.items[i])
         [] OTHER ->
              /\ Len(a.keys) = Len(b.keys)
              /\ \A i \in 1..Len(a.keys) :
                    /\ HasKey(b, a.keys[i])
                    /\ PyEq(a.vals[i], DictItem(b, a.keys[i]))

StageFunctions == {"normalize_ingredients", "suggest_dishes", "generate_recipe"}

\* the field a stage reads from the reply
FieldOf(fn) == IF fn = "normalize_ingredients" THEN "normalized_ingredients" ELSE "dishes"

\* what a stage returns when it has nothing
DefaultOf(fn) == IF fn = "generate_recipe" THEN EmptyDict ELSE EmptyList

\* the value a reply holds at `field` when the reply is a JSON object with that
\* field, the empty sequence for every other reply
ExpectedField(reply, field) ==
    IF reply.valid /\ reply.val.k = "obj" /\ HasKey(reply.val, field)
    THEN DictItem(reply.val, field)
    ELSE EmptyList

\* the reply itself when it is a JSON object, the empty record for every other reply
ExpectedRecord(reply) ==
    IF reply.valid /\ reply.val.k = "obj" THEN reply.val ELSE EmptyDict

\* the last element of a non-empty Python list
LastItem(v) == v.items[Len(v.items)]

\* C1: whatever text the endpoint returns, the parse step of normalize_ingredients
\* and of suggest_dishes does not raise; it returns the value stored at the stage's
\* field when the text is a JSON object with that field, and [] otherwise.
C1_ParseNeverRaises ==
    (call.fn \in {"normalize_ingredients", "suggest_dishes"} /\ call.ep.kind = "Text")
    => /\ ~call.raised
       /\ PyEq(call.ret, ExpectedField(Replies[call.ep.reply], FieldOf(call.fn)))

\* C1 witness: suggest_dishes got a JSON text whose top level is a list
C1_Witness ==
    /\ call.fn = "suggest_dishes"
    /\ call.ep.kind = "Text"
    /\ Replies[call.ep.reply].valid
    /\ Replies[call.ep.reply].val.k = "arr"
    /\ ~call.raised
    /\ call.ret = EmptyList

\* C2: a stage whose request to the endpoint fails with a ServiceError does not
\* raise and returns its empty result ([] or {}).
C2_ServiceErrorYieldsDefault ==
    (call.fn \in StageFunctions /\ call.ep.kind = "ServiceError")
    => /\ ~call.raised
       /\ PyEq(call.ret, DefaultOf(call.fn))

\* C3: generate_recipe returns a record for every response text: the parsed
\* object when the text is a JSON object, {} when the text is not JSON or is a
\* JSON value that is no object.
C3_GenerateReturnsRecord ==
    (call.fn = "generate_recipe" /\ call.ep.kind = "Text")
    => /\ ~call.raised
       /\ call.ret.k = "obj"
       /\ PyEq(call.ret, ExpectedRecord(Replies[call.ep.reply]))

\* C4: after any sequence of save_recipe calls the file holds the array it held
\* before the first call followed by the saved recipes in call order.
C4_StoreIsInitialPlusSaved ==
    /\ saved # <<>> => store.exists /\ json_loads(store.text).ok
    /\ PyEq(StoreArray(store), JArr(store0.items \o saved))

\* C4 witness: two different recipes saved to a store that had no file
C4_Witness ==
    /\ Len(saved) = 2
    /\ Len(store0.items) = 0
    /\ ~PyEq(saved[1], saved[2])
    /\ Len(StoreArray(store).items) = 2

\* C5: after save_recipe(recipe) of a value generate_recipe returned, the last
\* element read back from the file equals the value passed, and the caller's value
\* is what it was before the call.
C5_RoundTrip ==
    call.fn = "save_recipe"
    => /\ store.exists
       /\ json_loads(store.text).ok
       /\ json_loads(store.text).val.k = "arr"
       /\ Len(json_loads(store.text).val.items) > 0
       /\ PyEq(LastItem(json_loads(store.text).val), call.arg)
       /\ PyEq(call.ret, call.arg)

\* C5 witness: a recipe with several fields, one of them a nested record, saved
\* after another record
C5_Witness ==
    /\ call.fn = "save_recipe"
    /\ call.arg.k = "obj"
    /\ HasKey(call.arg, "substitutions")
    /\ Len(StoreArray(store).items) >= 2

\* C6: the run started by a click on the save trigger calls save_recipe with the
\* session's recipe, which then is the last record of the store.
C6_SaveClickAppends ==
    (run.clicked = "Save Recipe" /\ run.startup = "ok")
    => /\ run.call.fn = "save_recipe"
       /\ store.exists
       /\ Len(StoreArray(store).items) > 0
       /\ PyEq(LastItem(StoreArray(store)), session_state["recipe"])

\* a non-empty list of strings under `key`
HoldsIngredientList(ss, key) ==
    /\ key \in DOMAIN ss
    /\ ss[key].k = "arr"
    /\ Len(ss[key].items) > 0
    /\ \A i \in 1..Len(ss[key].items) : ss[key].items[i].k = "str"

\* a non-empty list of records under `key`
HoldsDishList(ss, key) ==
    /\ key \in DOMAIN ss
    /\ ss[key].k = "arr"
    /\ Len(ss[key].items) > 0
    /\ \A i \in 1..Len(ss[key].items) : ss[key].items[i].k = "obj"

\* C7: the suggest trigger is offered only when the session holds a non-empty
\* IngredientList; the dish selection and the generate trigger only when it also
\* holds a non-empty list of dish suggestions.
C7_ControlsOnlyWithResults ==
    /\ "Suggest Dishes" \in offered => HoldsIngredientList(session_state, "normalized")
    /\ ("selected_dish" \in offered \/ "Generate Recipe" \in offered)
       => /\ HoldsIngredientList(session_state, "normalized")
          /\ HoldsDishList(session_state, "dishes")

\* C8: every call of a stage sends exactly one prompt, its own, whether the reply
\* parses or not.
C8_OnePromptPerCall ==
    call.fn \in StageFunctions
    => /\ Len(call.sent) = 1
       /\ call.sent[1].stage = (CASE call.fn = "normalize_ingredients" -> "normalize"
                                  [] call.fn = "suggest_dishes" -> "suggest"
                                  [] OTHER -> "generate")

\* C8 witness: suggest_dishes got a text that is not JSON and returned [] after
\* one prompt
C8_Witness ==
    /\ call.fn = "suggest_dishes"
    /\ call.ep.kind = "Text"
    /\ ~Replies[call.ep.reply].valid
    /\ call.ret = EmptyList
    /\ Len(call.sent) = 1

\* C9: whenever the dish selection is offered, the dishes held in the session were
\* suggested for the IngredientList the session holds now.
C9_DishesMatchIngredients ==
    "selected_dish" \in offered => PyEq(dishes_src, session_state["normalized"])

\* no prompt of a stage among the prompts of a run
NoStagePrompt(sent) == \A i \in 1..Len(sent) : sent[i].stage = "test"

====
